---------------------------- MODULE Spec2Model ----------------------------
(***************************************************************************)
(* A model of the code that JitArm64_SystemRegisters.cpp emits for the     *)
(* guest instructions that read and write the condition register, XER,     *)
(* FPSCR and the trap instruction.  An action is one guest instruction (or *)
(* one codec call): it applies the effect of the emitted ARM64 sequence to *)
(* the guest state.                                                        *)
(*                                                                         *)
(* A host register is the set of the positions of its 1 bits: X registers  *)
(* are subsets of 0..63, W registers subsets of 0..31.  Writing a W        *)
(* register clears bits 32..63 of the X register it is the low half of.    *)
(***************************************************************************)
EXTENDS Integers, FiniteSets, Sequences, TLC

---------------------------------------------------------------------------
(* ARM64 data-processing instructions on bit sets *)

B64 == 0..63
B32 == 0..31

AND(a, b) == a \cap b
ORR(a, b) == a \cup b
EOR(a, b) == (a \ b) \cup (b \ a)
BIC(a, b) == a \ b
\* 32-bit forms (GPRSize::B32 / W operands): the result is zero-extended
W(x) == x \cap B32
ORN32(a, b) == W(a) \cup (B32 \ b)
EON32(a, b) == EOR(W(a), B32 \ b)
LSR(x, n) == {i - n : i \in {j \in x : j >= n}}
LSL(x, n) == {i + n : i \in {j \in x : j + n <= 63}}
LSL32(x, n) == {i + n : i \in {j \in W(x) : j + n <= 31}}
UBFX(x, lsb, width) == {i - lsb : i \in {j \in x : j >= lsb /\ j < lsb + width}}
BFI(dst, src, lsb, width) ==
    (dst \ (lsb..(lsb + width - 1))) \cup {i + lsb : i \in {j \in src : j < width}}
\* CSET: 1 when the condition holds
CSET(c) == IF c THEN {0} ELSE {}
CSEL(c, a, b) == IF c THEN a ELSE b

\* Conditions after CMP(reg, ZR), a 64-bit compare with zero
CC_NEQ_Zero(x) == x # {}
CC_GT_Zero(x) == x # {} /\ 63 \notin x
\* Condition after CMP(WCR, WZR): the low 32 bits are zero
CC_EQ_Zero32(x) == W(x) = {}

---------------------------------------------------------------------------
(* Program constants *)

CR_SO_BIT == 0
CR_EQ_BIT == 1
CR_GT_BIT == 2
CR_LT_BIT == 3
CR_EMU_SO_BIT == 59
CR_EMU_LT_BIT == 62
NumCRFields == 8
\* EXCEPTION_PROGRAM = 1 << 7
EXCEPTION_PROGRAM_BIT == 7
\* ProgramExceptionCause::Trap = 1 << 17
TRAP_CAUSE_BIT == 17

CRBits == {CR_SO_BIT, CR_EQ_BIT, CR_GT_BIT, CR_LT_BIT}

\* PowerPC::ConditionRegister::s_crTable: the packed word of a 4-bit nibble
\* (SO = bit 0, EQ = bit 1, GT = bit 2, LT = bit 3 of the nibble).
s_crTable(n) ==
    {32} \cup (IF CR_SO_BIT \in n THEN {CR_EMU_SO_BIT} ELSE {})
         \cup (IF CR_EQ_BIT \in n THEN {} ELSE {0})
         \cup (IF CR_GT_BIT \in n THEN {} ELSE {63})
         \cup (IF CR_LT_BIT \in n THEN {CR_EMU_LT_BIT} ELSE {})

\* A compare leaves the sign-extended 32-bit difference in the field
SignExtend32(v) == W(v) \cup (IF 31 \in v THEN 32..63 ELSE {})

---------------------------------------------------------------------------
(* Bounds *)

\* Instructions address the condition fields 0..MaxField
MaxField == 1
\* Instructions address the general registers 0..MaxGPR
MaxGPR == 2
\* The number of items the clients of a work queue push
MaxItems == 2
\* The number of guest instructions in a block
MaxBlockLen == 3
\* The number of register-file snapshots Init draws from
NumSnapshots == 23

Fields == 0..(NumCRFields - 1)
OpFields == 0..MaxField
OpCRBits == 0..(4 * (MaxField + 1) - 1)
GPRegs == 0..MaxGPR

\* The bits of a small number k, as a register of the given width
Bits(k, width) == {i \in 0..(width - 1) : (k \div (2 ^ i)) % 2 = 1}

\* Packed words a field can hold: the 16 table entries and results of compares
\* (0, 1, -1, 0x7FFFFFFF, -2^31, and the cmpl differences 0xFFFFFFFF, -0xFFFFFFFF)
RawWords ==
    << {}, {0}, SignExtend32(B32), B32 \ {31}, SignExtend32({31}),
       B32, (32..63) \cup {0} >>
NumCRWords == 16 + Len(RawWords)
CRWord(k) == IF k < 16 THEN s_crTable(Bits(k, 4)) ELSE RawWords[k - 15]

\* The k-th snapshot of the eight condition fields: raw words and table
\* entries, a different mix of neighbours in each snapshot
CRSnapshot(k) ==
    [i \in Fields |-> CRWord((16 + k * (2 * i + 1) + 5 * i) % NumCRWords)]

\* 32-bit values a general register can hold: 0, 1, 0xFFFFFFFF, 0x7FFFFFFF,
\* 0x80000000, 0xF0000000, 0x01234567, 0x89ABCDEF, 0xFEDCBA98, 0x40000000
GPRValues ==
    << {},
       {0},
       {0, 1, 2, 3, 4, 5, 6, 7, 8, 9, 10, 11, 12, 13, 14, 15, 16, 17, 18, 19, 20, 21, 22, 23, 24, 25, 26, 27, 28, 29, 30, 31},
       {0, 1, 2, 3, 4, 5, 6, 7, 8, 9, 10, 11, 12, 13, 14, 15, 16, 17, 18, 19, 20, 21, 22, 23, 24, 25, 26, 27, 28, 29, 30},
       {31},
       {28, 29, 30, 31},
       {0, 1, 2, 5, 6, 8, 10, 14, 16, 17, 21, 24},
       {0, 1, 2, 3, 5, 6, 7, 8, 10, 11, 14, 15, 16, 17, 19, 21, 23, 24, 27, 31},
       {3, 4, 7, 9, 11, 12, 13, 15, 18, 19, 20, 22, 23, 25, 26, 27, 28, 29, 30, 31},
       {30} >>
GPRSnapshot(k) ==
    [r \in GPRegs |-> GPRValues[((k * (r + 1) + 3 * r) % Len(GPRValues)) + 1]]

\* Pending exceptions and SRR1 at block entry
ExceptionsValues == << {}, {4}, {EXCEPTION_PROGRAM_BIT}, {2, 10} >>
ExceptionsSnapshot(k) == ExceptionsValues[(k % Len(ExceptionsValues)) + 1]
Srr1Values == << {}, {TRAP_CAUSE_BIT}, {1, 15, 16} >>
Srr1Snapshot(k) == Srr1Values[(k % Len(Srr1Values)) + 1]

\* FPSCR words at block entry, before their two summary bits are made consistent
FpscrBaseValues ==
    << {}, {31}, {24, 7}, {28, 6}, {28}, {7, 6, 5, 4, 3}, {27, 5, 1, 0}, {26},
       {25, 3}, {10, 9, 8}, {19, 18, 17, 16, 15, 14, 13, 12}, B32, {31, 23, 7, 2} >>
FpscrBase(k) ==
    IF k < Len(FpscrBaseValues) THEN FpscrBaseValues[k + 1]
    ELSE {i \in B32 : ((k + 3) * (i + 5) + i * i) % 7 < 3}

\* XER at block entry: the carry byte 0 or 1, the overflow byte 0..3
XerCaSnapshot(k) == Bits(k % 2, 1)
XerSoOvSnapshot(k) == Bits((k \div 2) % 4, 2)
XerStringctrlValues == << {}, {0, 1, 2, 3, 4, 5, 6}, (0..15) \ {7}, {8, 15}, {3, 9} >>
XerStringctrlSnapshot(k) == XerStringctrlValues[(k % Len(XerStringctrlValues)) + 1]

---------------------------------------------------------------------------
VARIABLES
    cr,              \* ppcState.cr.fields: field -> packed 64-bit word
    crField,         \* the field bound to a host register for codec calls
    wroteGT,         \* a codec call has written GT of the bound field
    gpr,             \* guest general registers as the register cache holds them
    ppc_gpr,         \* ppcState.gpr: the registers as last stored to memory
    Exceptions,      \* ppcState.Exceptions
    srr1,            \* ppcState.spr[SPR_SRR1]
    pc,              \* js.compilerPC of the next instruction of the block
    exit,            \* how and where the block was left, if it was
    fpscr,           \* ppcState.fpscr
    xer_ca,          \* ppcState.xer_ca (a byte)
    xer_so_ov,       \* ppcState.xer_so_ov (a byte)
    xer_stringctrl,  \* ppcState.xer_stringctrl (a halfword)
    spr_xer,         \* ppcState.spr[SPR_XER]
    jsOp,            \* the time base read being compiled and js.op[1] after it
    tbTicks,         \* emulated cycles since the time base was started (64 bits)
    tbStart,         \* CoreTiming::Globals::fake_TB_start_value (64 bits)
    tbQ,             \* the number of whole 12-cycle units tbTicks was made of
    spr_tl,          \* ppcState.spr[SPR_TL] and [SPR_TU] as one 64-bit word
    skipInstructions,\* js.skipInstructions
    downcountAmount, \* js.downcountAmount
    m_items,         \* WorkQueueThread::m_items, front first
    m_lock,          \* the holder of m_lock, or "free"
    m_wakeup,        \* Event m_wakeup is set
    m_flushed,       \* Event m_flushed is set
    m_shutdown,      \* Flag m_shutdown
    m_cancelled,     \* Flag m_cancelled
    m_flush,         \* Flag m_flush
    joinable,        \* m_thread.joinable()
    wpc,             \* where the worker thread is in ThreadLoop
    witem,           \* the item the worker moved out of the queue
    cpc,             \* where each client thread is in the call it makes
    citem,           \* the item a client is pushing
    csnap,           \* the pushes that had completed when a client's call began
    nextItem,        \* the next item a client will push
    enqueued,        \* the items in the order they were put into m_items
    pushDone,        \* the items whose Push has returned
    executed,        \* the items in the order m_function was invoked on them
    finished,        \* the items whose invocation has returned
    removed,         \* the items Clear took out of the queue
    active,          \* the number of invocations of m_function in progress
    snap,            \* the snapshot the run started from
    last,            \* the instruction or codec call executed last
    pre,             \* the guest state before it
    prev             \* the instruction executed before last, and the state before it

crVars == <<cr, crField, wroteGT>>
gprVars == <<gpr, ppc_gpr>>
trapVars == <<Exceptions, srr1, exit>>
fpVars == <<fpscr>>
xerVars == <<xer_ca, xer_so_ov, xer_stringctrl, spr_xer>>
tbVars == <<jsOp, tbTicks, tbStart, tbQ, spr_tl, skipInstructions, downcountAmount>>
wqSync == <<m_items, m_lock, m_wakeup, m_flushed, m_shutdown, m_cancelled, m_flush, joinable>>
wqThreads == <<wpc, witem, cpc, citem, csnap, nextItem>>
wqHistory == <<enqueued, pushDone, executed, finished, removed, active>>
wqVars == <<wqSync, wqThreads, wqHistory>>
jitVars == <<crVars, gprVars, trapVars, pc, fpVars, xerVars, tbVars, snap, last, pre, prev>>
vars == <<jitVars, wqVars>>

Snap ==
    [cr |-> cr, gpr |-> gpr, ppc_gpr |-> ppc_gpr, Exceptions |-> Exceptions,
     srr1 |-> srr1, pc |-> pc, fpscr |-> fpscr, xer_ca |-> xer_ca,
     xer_so_ov |-> xer_so_ov, xer_stringctrl |-> xer_stringctrl]
NoExit == [kind |-> "none", pc |-> 0]
\* The block is still executing and has an instruction left
Running == exit.kind = "none" /\ pc < 4 * MaxBlockLen
NoOp == [op |-> "init"]
NoPrev == [last |-> NoOp]

---------------------------------------------------------------------------
(* Condition field codec *)

\* GetCRFieldBit: the flag as 0 or 1
GetCRFieldBit(CR, bit) ==
    CASE bit = CR_SO_BIT -> UBFX(CR, CR_EMU_SO_BIT, 1)
      [] bit = CR_EQ_BIT -> CSET(CC_EQ_Zero32(CR))
      [] bit = CR_GT_BIT -> CSET(CC_GT_Zero(CR))
      [] bit = CR_LT_BIT -> UBFX(CR, CR_EMU_LT_BIT, 1)

\* FixGTBeforeSettingCRFieldBit leaving a zero word as it is
FixGT_Never(reg) == reg

FixGTBeforeSettingCRFieldBit(reg) == CSEL(CC_NEQ_Zero(reg), reg, {63})

\* SetCRFieldBit(field, bit, in, negate, bits_1_to_31_are_set) on the bound register
SetCRFieldBitReg(CR, bit, in, negate, bits_1_to_31_are_set) ==
    LET c0 == IF bit # CR_GT_BIT THEN FixGTBeforeSettingCRFieldBit(CR) ELSE CR
        c1 == CASE bit = CR_SO_BIT ->
                     LET t == BFI(c0, in, CR_EMU_SO_BIT, 1)
                     IN  IF negate THEN EOR(t, {CR_EMU_SO_BIT}) ELSE t
                [] bit = CR_EQ_BIT ->
                     LET t == ORR(AND(c0, 32..63), in)
                     IN  IF ~negate
                         THEN EOR(t, IF bits_1_to_31_are_set THEN B32 ELSE {0})
                         ELSE IF bits_1_to_31_are_set
                              THEN AND(t, (32..63) \cup {0})
                              ELSE t
                [] bit = CR_GT_BIT ->
                     LET t == BFI(c0, in, 63, 1)
                     IN  IF ~negate THEN EOR(t, {63}) ELSE t
                [] bit = CR_LT_BIT ->
                     LET t == BFI(c0, in, CR_EMU_LT_BIT, 1)
                     IN  IF negate THEN EOR(t, {CR_EMU_LT_BIT}) ELSE t
    IN  ORR(c1, {32})

\* ClearCRFieldBit clearing EQ without the GT fix
ClearCRFieldBit_NoFix(XA, bit) ==
    CASE bit = CR_SO_BIT -> AND(XA, B64 \ {CR_EMU_SO_BIT})
      [] bit = CR_EQ_BIT -> ORR(XA, {0})
      [] bit = CR_GT_BIT -> ORR(XA, {63})
      [] bit = CR_LT_BIT -> AND(XA, B64 \ {CR_EMU_LT_BIT})

ClearCRFieldBit(XA, bit) ==
    CASE bit = CR_SO_BIT -> AND(XA, B64 \ {CR_EMU_SO_BIT})
      [] bit = CR_EQ_BIT -> ORR(FixGTBeforeSettingCRFieldBit(XA), {0})
      [] bit = CR_GT_BIT -> ORR(XA, {63})
      [] bit = CR_LT_BIT -> AND(XA, B64 \ {CR_EMU_LT_BIT})

\* SetCRFieldBit(field, bit) without the final ORR of bit 32
SetCRFieldBit_NoBit32(XA, bit) ==
    LET c0 == IF bit # CR_GT_BIT THEN FixGTBeforeSettingCRFieldBit(XA) ELSE XA
    IN  CASE bit = CR_SO_BIT -> ORR(c0, {CR_EMU_SO_BIT})
          [] bit = CR_EQ_BIT -> AND(c0, 32..63)
          [] bit = CR_GT_BIT -> AND(c0, B64 \ {63})
          [] bit = CR_LT_BIT -> ORR(c0, {CR_EMU_LT_BIT})

\* SetCRFieldBit(field, bit)
SetCRFieldBit(XA, bit) ==
    LET c0 == IF bit # CR_GT_BIT THEN FixGTBeforeSettingCRFieldBit(XA) ELSE XA
        c1 == CASE bit = CR_SO_BIT -> ORR(c0, {CR_EMU_SO_BIT})
                [] bit = CR_EQ_BIT -> AND(c0, 32..63)
                [] bit = CR_GT_BIT -> AND(c0, B64 \ {63})
                [] bit = CR_LT_BIT -> ORR(c0, {CR_EMU_LT_BIT})
    IN  ORR(c1, {32})

\* The flag as a boolean
Flag(CR, bit) == GetCRFieldBit(CR, bit) = {0}

---------------------------------------------------------------------------
(* Two-operand condition logic *)

\* crnor, crnand and sometimes creqv
CrNegateResult(SUBOP10, crbd_bit) ==
    \/ SUBOP10 = 33
    \/ SUBOP10 = 225
    \/ (SUBOP10 = 289 /\ (crbd_bit = CR_EQ_BIT \/ crbd_bit = CR_GT_BIT))

\* CrCombine with crandc combined as crand (AND in place of BIC)
CrCombine_AndcAsAnd(SUBOP10, XA, XB, negate_result) ==
    CASE SUBOP10 \in {225, 257, 129} -> AND(XA, XB)
      [] SUBOP10 = 193 -> EOR(XA, XB)
      [] SUBOP10 = 289 -> IF negate_result THEN EOR(XA, XB) ELSE EON32(XA, XB)
      [] SUBOP10 \in {33, 449} -> ORR(XA, XB)
      [] SUBOP10 = 417 -> ORN32(XA, XB)

\* The combined bit in XA, from the two source bits in XA and XB
CrCombine(SUBOP10, XA, XB, negate_result) ==
    CASE SUBOP10 \in {225, 257} -> AND(XA, XB)
      [] SUBOP10 = 129 -> BIC(XA, XB)
      [] SUBOP10 = 193 -> EOR(XA, XB)
      [] SUBOP10 = 289 -> IF negate_result THEN EOR(XA, XB) ELSE EON32(XA, XB)
      [] SUBOP10 \in {33, 449} -> ORR(XA, XB)
      [] SUBOP10 = 417 -> ORN32(XA, XB)

CrBits1To31AreSet(SUBOP10, negate_result) ==
    (SUBOP10 = 289 /\ ~negate_result) \/ SUBOP10 = 417

CrOps == {33, 129, 193, 225, 257, 289, 417, 449}

\* The condition fields after crXXX
crXXX(crf, SUBOP10, CRBA, CRBB, CRBD) ==
    LET fd == CRBD \div 4
        crbd_bit == 3 - (CRBD % 4)
        A == GetCRFieldBit(crf[CRBA \div 4], 3 - (CRBA % 4))
        Bv == GetCRFieldBit(crf[CRBB \div 4], 3 - (CRBB % 4))
        negate_result == CrNegateResult(SUBOP10, crbd_bit)
    IN  IF CRBA = CRBB /\ SUBOP10 \in {129, 193}
        THEN [crf EXCEPT ![fd] = ClearCRFieldBit(@, crbd_bit)]
        ELSE IF CRBA = CRBB /\ SUBOP10 \in {289, 417}
        THEN [crf EXCEPT ![fd] = SetCRFieldBit(@, crbd_bit)]
        ELSE IF CRBA = CRBB /\ SUBOP10 \in {257, 449}
        THEN [crf EXCEPT ![fd] = SetCRFieldBitReg(@, crbd_bit, A, FALSE, FALSE)]
        ELSE IF CRBA = CRBB /\ SUBOP10 \in {33, 225}
        THEN [crf EXCEPT ![fd] = SetCRFieldBitReg(@, crbd_bit, A, TRUE, FALSE)]
        ELSE [crf EXCEPT ![fd] =
                 SetCRFieldBitReg(@, crbd_bit,
                                  CrCombine(SUBOP10, A, Bv, negate_result),
                                  negate_result,
                                  CrBits1To31AreSet(SUBOP10, negate_result))]

---------------------------------------------------------------------------
(* Condition register bulk transfer *)

\* MfcrField testing GT on the low 32 bits (CMP(WCR, WZR) in place of CMP(CR, ZR))
MfcrField_GT32(XA, CR, i) ==
    LET XB == {CR_SO_BIT, CR_LT_BIT}
        so_lt == AND(XB, LSR(CR, CR_EMU_SO_BIT))
        x1 == IF i = 0 THEN so_lt ELSE ORR(so_lt, LSL(XA, 4))
        w2 == CSEL(CC_EQ_Zero32(CR), ORR(W(x1), {CR_EQ_BIT}), W(x1))
    IN  CSEL(W(CR) # {} /\ 31 \notin CR, ORR(w2, {CR_GT_BIT}), w2)

\* One iteration of mfcr's loop: XA after field i's word CR has been added
MfcrField(XA, CR, i) ==
    LET XB == {CR_SO_BIT, CR_LT_BIT}
        so_lt == AND(XB, LSR(CR, CR_EMU_SO_BIT))
        x1 == IF i = 0 THEN so_lt ELSE ORR(so_lt, LSL(XA, 4))
        w2 == CSEL(CC_EQ_Zero32(CR), ORR(W(x1), {CR_EQ_BIT}), W(x1))
    IN  CSEL(CC_GT_Zero(CR), ORR(w2, {CR_GT_BIT}), w2)

RECURSIVE MfcrLoop(_, _, _)
MfcrLoop(crf, XA, i) ==
    IF i = NumCRFields THEN XA
    ELSE MfcrLoop(crf, MfcrField(XA, crf[i], i), i + 1)

\* The value mfcr leaves in RD
mfcr(crf) == MfcrLoop(crf, {}, 0)

\* The index into s_crTable that mtcrf computes for field i
MtcrfNibble(RS, i) ==
    LET w1 == IF i # 7 THEN LSR(W(RS), 28 - i * 4) ELSE {}
    IN  IF i # 0
        THEN (IF i # 7 THEN UBFX(w1, 0, 4) ELSE UBFX(W(RS), 0, 4))
        ELSE w1

\* mtcrf selecting field i by mask bit 1 << i in place of 0x80 >> i
mtcrf_MaskReversed(crf, RS, crm) ==
    [i \in Fields |->
        IF i \in crm THEN s_crTable(MtcrfNibble(RS, i)) ELSE crf[i]]

\* The condition fields after mtcrf; crm is the 8-bit CRM as a bit set
mtcrf(crf, RS, crm) ==
    [i \in Fields |->
        IF (7 - i) \in crm THEN s_crTable(MtcrfNibble(RS, i)) ELSE crf[i]]

---------------------------------------------------------------------------
(* Trap evaluator *)

\* a < b as unsigned numbers of the given bits
LessU(a, b) ==
    \E i \in b \ a : \A j \in (a \cup b) : j > i => (j \in a <=> j \in b)

\* The NZCV flags CMP(a, b) sets for 32-bit operands: those of a - b
CMP32(a, b) ==
    LET low == 0..30
        borrow31 == LessU(a \cap low, b \cap low)
        res31 == ((31 \in a) # (31 \in b)) # borrow31
    IN  [N |-> res31,
         Z |-> W(a) = W(b),
         C |-> ~LessU(W(a), W(b)),
         V |-> ((31 \in a) # (31 \in b)) /\ (res31 # (31 \in a))]

CondHolds(cc, f) ==
    CASE cc = "CC_LT" -> f.N # f.V
      [] cc = "CC_GT" -> ~f.Z /\ f.N = f.V
      [] cc = "CC_EQ" -> f.Z
      [] cc = "CC_VC" -> ~f.V
      [] cc = "CC_VS" -> f.V

\* twx's conditions array: the branch emitted for bit i of inst.TO
conditions == << "CC_LT", "CC_GT", "CC_EQ", "CC_VC", "CC_VS" >>

SignExtend16(imm) == imm \cup (IF 15 \in imm THEN 16..31 ELSE {})

\* Whether the emitted code branches to the trap exit; TO is the 5-bit field as
\* a bit set
TwxTaken(TO, a, b) ==
    \E i \in 0..4 : i \in TO /\ CondHolds(conditions[i + 1], CMP32(a, b))

\* gpr.Flush: the cached registers are stored to ppcState
Flush(cache) == cache

\* twx storing the program-exception bit instead of ORing it in
TwxEffect_StoreOnly(taken, conditional_continue) ==
    IF taken
    THEN [ppc_gpr |-> Flush(gpr),
          Exceptions |-> {EXCEPTION_PROGRAM_BIT},
          srr1 |-> {TRAP_CAUSE_BIT},
          exit |-> [kind |-> "exception", pc |-> pc],
          pc |-> pc]
    ELSE IF ~conditional_continue
    THEN [ppc_gpr |-> Flush(gpr), Exceptions |-> Exceptions, srr1 |-> srr1,
          exit |-> [kind |-> "exit", pc |-> pc + 4], pc |-> pc]
    ELSE [ppc_gpr |-> ppc_gpr, Exceptions |-> Exceptions, srr1 |-> srr1,
          exit |-> exit, pc |-> pc + 4]

\* The state twx leaves: the far-code trap exit, or the fallthrough
TwxEffect(taken, conditional_continue) ==
    IF taken
    THEN [ppc_gpr |-> Flush(gpr),
          Exceptions |-> ORR(Exceptions, {EXCEPTION_PROGRAM_BIT}),
          srr1 |-> {TRAP_CAUSE_BIT},
          exit |-> [kind |-> "exception", pc |-> pc],
          pc |-> pc]
    ELSE IF ~conditional_continue
    THEN [ppc_gpr |-> Flush(gpr), Exceptions |-> Exceptions, srr1 |-> srr1,
          exit |-> [kind |-> "exit", pc |-> pc + 4], pc |-> pc]
    ELSE [ppc_gpr |-> ppc_gpr, Exceptions |-> Exceptions, srr1 |-> srr1,
          exit |-> exit, pc |-> pc + 4]

\* 16-bit immediates of twi: 0, 1, 0x7FFF, 0x8000, 0xFFFF
SIMM16Values == { {}, {0}, 0..14, {15}, 0..15 }

---------------------------------------------------------------------------
(* Floating-point status and control register *)

FPSCR_FX == {31}
FPSCR_FEX == {30}
FPSCR_VX == {29}
\* VXSNAN, VXISI, VXIDI, VXZDZ, VXIMZ, VXVC, VXSOFT, VXSQRT, VXCVI
FPSCR_VX_ANY == {24, 23, 22, 21, 20, 19, 10, 9, 8}
\* OX, UX, ZX, XX and the invalid-operation bits
FPSCR_ANY_X == {28, 27, 26, 25} \cup FPSCR_VX_ANY
\* VE, OE, UE, ZE, XE
FPSCR_ANY_E == {7, 6, 5, 4, 3}

\* MathUtil::IntLog2 of a one-bit mask
IntLog2(mask) == CHOOSE i \in mask : TRUE

\* UpdateFPExceptionSummary with FEX computed before VX is written
UpdateFPExceptionSummary_FexFirst(f) ==
    LET fex == CSET(AND(AND(f, FPSCR_ANY_E), LSR(W(f), 22)) # {})
        vx == CSET(AND(FPSCR_VX_ANY, f) # {})
    IN  BFI(BFI(f, vx, IntLog2(FPSCR_VX), 1), fex, IntLog2(FPSCR_FEX), 1)

UpdateFPExceptionSummary(f) ==
    LET f1 == BFI(f, CSET(AND(FPSCR_VX_ANY, f) # {}), IntLog2(FPSCR_VX), 1)
        WA == AND(f1, FPSCR_ANY_E)
    IN  BFI(f1, CSET(AND(WA, LSR(W(f1), 22)) # {}), IntLog2(FPSCR_FEX), 1)

\* Each FPSCR instruction yields the word it computes, whether it calls
\* UpdateFPExceptionSummary on it, and whether it stores it
FpResult(raw, update, store) == [raw |-> raw, update |-> update, store |-> store]

\* The FPSCR an instruction with that result leaves
FpStored(old, r) ==
    IF ~r.store THEN old
    ELSE IF r.update THEN UpdateFPExceptionSummary(r.raw) ELSE r.raw

Mask4(shift) == shift..(shift + 3)

mcrfs(f, CRFS) ==
    LET mask == AND(Mask4(4 * (7 - CRFS)), FPSCR_FX \cup FPSCR_ANY_X)
    IN  FpResult(AND(f, B32 \ mask), mask # {}, mask # {})

\* The index into s_crTable that mcrfs computes
McrfsNibble(f, CRFS) == UBFX(f, 4 * (7 - CRFS), 4)

mtfsb0x(f, CRBD) ==
    LET mask == {31 - CRBD}
    IN  IF mask = FPSCR_FEX \/ mask = FPSCR_VX
        THEN FpResult(f, FALSE, FALSE)
        ELSE FpResult(AND(f, B32 \ mask),
                      AND(mask, FPSCR_ANY_X \cup FPSCR_ANY_E) # {}, TRUE)

mtfsb1x(f, CRBD) ==
    LET mask == {31 - CRBD}
        WA == IF AND(mask, FPSCR_ANY_X) # {}
              THEN CSEL(AND(f, mask) # {}, f, ORR(f, {31}))
              ELSE f
    IN  IF mask = FPSCR_FEX \/ mask = FPSCR_VX
        THEN FpResult(f, FALSE, FALSE)
        ELSE FpResult(ORR(WA, mask),
                      AND(mask, FPSCR_ANY_X \cup FPSCR_ANY_E) # {}, TRUE)

\* imm is the 4-bit immediate as a bit set
mtfsfix(f, CRFD, imm) ==
    LET shift == 28 - 4 * CRFD
        mask == Mask4(shift)
        WA == IF imm = {0, 1, 2, 3} THEN ORR(f, mask)
              ELSE IF imm = {} THEN AND(f, B32 \ mask)
              ELSE BFI(f, imm, shift, 4)
    IN  FpResult(WA,
                 AND(mask, FPSCR_FEX \cup FPSCR_VX \cup FPSCR_ANY_X \cup FPSCR_ANY_E) # {},
                 TRUE)

\* FM is the 8-bit field mask as a bit set, fb the low word of register FB
mtfsfx(f, FM, fb) ==
    LET mask == UNION {Mask4(4 * i) : i \in FM}
    IN  IF mask = B32 THEN FpResult(W(fb), TRUE, TRUE)
        ELSE IF mask # {}
        THEN FpResult(ORR(AND(f, B32 \ mask), AND(W(fb), mask)),
                      AND(mask, FPSCR_FEX \cup FPSCR_VX \cup FPSCR_ANY_X \cup FPSCR_ANY_E) # {},
                      TRUE)
        ELSE FpResult(f, FALSE, FALSE)

---------------------------------------------------------------------------
(* XER *)

XER_CA_SHIFT == 29
XER_OV_SHIFT == 30

\* UBFM(Rd, Rn, immr, imms) with imms >= immr: bits immr..imms of Rn, moved to bit 0
UBFM(x, immr, imms) == UBFX(W(x), immr, imms - immr + 1)

\* mtspr to SPR_XER without the 0xFFFFFF7F mask
mtspr_XER_NoMask(RD) ==
    [xer_stringctrl |-> AND(W(RD), 0..15),
     xer_ca |-> AND(UBFM(RD, XER_CA_SHIFT, XER_CA_SHIFT + 1), 0..7),
     xer_so_ov |-> AND(UBFM(RD, XER_OV_SHIFT, 31), 0..7)]

\* The three stores of mtspr to SPR_XER; a byte or halfword store keeps the low bits
mtspr_XER(RD) ==
    [xer_stringctrl |-> AND(AND(W(RD), B32 \ {7}), 0..15),
     xer_ca |-> AND(UBFM(RD, XER_CA_SHIFT, XER_CA_SHIFT + 1), 0..7),
     xer_so_ov |-> AND(UBFM(RD, XER_OV_SHIFT, 31), 0..7)]

\* The value mfspr from SPR_XER leaves in RD
mfspr_XER(stringctrl, ca, so_ov) ==
    ORR(ORR(stringctrl, LSL32(ca, XER_CA_SHIFT)), LSL32(so_ov, XER_OV_SHIFT))

\* The index into s_crTable that mcrxr computes: the byte offset
\* [SO OV CA 0] << 3 selects the 8-byte entry [SO OV CA 0]
McrxrNibble(ca, so_ov) == LSR(LSL32(BFI(ca, so_ov, 1, 2), 4), 3)

---------------------------------------------------------------------------
(* The two derived FPSCR bits, by their definition *)

\* VX is the OR of the invalid-operation exception bits
RefVX(f) == \E i \in FPSCR_VX_ANY : i \in f
\* FEX: some exception bit (VX, OX, UX, ZX, XX) is set together with its enable
\* bit (VE, OE, UE, ZE, XE), which sits 22 positions below it
RefFEX(f) == \E e \in FPSCR_ANY_E : e \in f /\ (e + 22) \in f
SummaryConsistent(f) ==
    /\ (29 \in f) = RefVX(f)
    /\ (30 \in f) = RefFEX(f)

\* The FPSCR at block entry: a base word with its derived bits made consistent
FpscrSnapshot(k) ==
    LET b == FpscrBase(k) \ {29, 30}
        v == b \cup (IF RefVX(b) THEN {29} ELSE {})
    IN  v \cup (IF RefFEX(v) THEN {30} ELSE {})

\* Operands of the FPSCR instructions
FMValues == {0, 255, 1, 128, 24, 231, 64, 191}
FBValues == { {}, B32, {24, 7, 1}, {31, 28, 20, 3} }
ImmValues == 0..15

---------------------------------------------------------------------------
(* Time base *)

SPR_TL == 268
SPR_TU == 269

\* The value of byte i of a 64-bit register
Limb(x, i) ==
    LET bit(b, w) == IF (8 * i + b) \in x THEN w ELSE 0
    IN  bit(0, 1) + bit(1, 2) + bit(2, 4) + bit(3, 8) + bit(4, 16) + bit(5, 32)
        + bit(6, 64) + bit(7, 128)

\* The bytes of a 64-bit register, byte 0 first
Limbs(x) == [i \in 0..7 |-> Limb(x, i)]

\* The 64-bit register with the given bytes
FromLimbs(l) == {b \in B64 : (l[b \div 8] \div (2 ^ (b % 8))) % 2 = 1}

\* The bytes i.. of A + B with carry c in
RECURSIVE AddLimbs(_, _, _, _)
AddLimbs(A, B, i, c) ==
    IF i = 8 THEN << >>
    ELSE LET s == A[i] + B[i] + c
         IN  << s % 256 >> \o AddLimbs(A, B, i + 1, s \div 256)

\* ADD on X registers: the sum modulo 2^64
ADD64(a, b) ==
    LET l == AddLimbs(Limbs(a), Limbs(b), 0, 0)
    IN  FromLimbs([i \in 0..7 |-> l[i + 1]])

\* Column k of the schoolbook product of the bytes A and B
MulColumn(A, B, k) ==
    LET T(i) == IF (k - i) \in 0..7 THEN A[i] * B[k - i] ELSE 0
    IN  T(0) + T(1) + T(2) + T(3) + T(4) + T(5) + T(6) + T(7)

\* The bytes k.. of the 128-bit product with carry c in
RECURSIVE MulLimbs(_, _, _, _)
MulLimbs(A, B, k, c) ==
    IF k = 16 THEN << >>
    ELSE LET s == MulColumn(A, B, k) + c
         IN  << s % 256 >> \o MulLimbs(A, B, k + 1, s \div 256)

\* UMULH: the high 64 bits of the 128-bit product
UMULH(a, b) ==
    LET l == MulLimbs(Limbs(a), Limbs(b), 0, 0)
    IN  FromLimbs([j \in 0..7 |-> l[j + 9]])

\* ORR(XB, ZR, 0xAAAAAAAAAAAAAAAA)
Reciprocal12Base == {b \in B64 : b % 2 = 1}

\* The division with the reciprocal left at 0xAAAAAAAAAAAAAAAA
Div12_NoIncrement(x) == LSR(UMULH(x, Reciprocal12Base), 3)

\* a / 12 = (a * 0xAAAAAAAAAAAAAAAB) >> 67
Div12(x) == LSR(UMULH(x, ADD64(Reciprocal12Base, {0})), 3)

\* The 64-bit time base the fast path stores to SPR_TL
TimeBase(quot, start) == ADD64(start, quot)

\* The half of the time base an index reads
TbHalf(tb, index) == IF index = SPR_TL THEN W(tb) ELSE LSR(tb, 32)

\* Fusion that does not compare the destination registers
TbFused_AnyDest(op) ==
    /\ op.canMerge
    /\ op.next.OPCD = 31 /\ op.next.SUBOP10 = 371
    /\ op.next.index \in {SPR_TU, SPR_TL}

\* Whether mfspr merges the next instruction into the time base read
TbFused(op) ==
    /\ op.canMerge
    /\ op.next.OPCD = 31 /\ op.next.SUBOP10 = 371
    /\ op.next.index \in {SPR_TU, SPR_TL}
    /\ op.next.RD # op.RD

\* The registers after the time base read
mfspr_TB(regs, op, tb) ==
    IF TbFused(op)
    THEN [[regs EXCEPT ![op.RD] = TbHalf(tb, op.index)]
             EXCEPT ![op.next.RD] = TbHalf(tb, op.next.index)]
    ELSE [regs EXCEPT ![op.RD] = TbHalf(tb, op.index)]

\* The bytes i.. of 12 * Q + c, followed by the carry out
RECURSIVE Mul12Limbs(_, _, _)
Mul12Limbs(Q, i, c) ==
    IF i = 8 THEN << c >>
    ELSE LET s == 12 * Q[i] + c
         IN  << s % 256 >> \o Mul12Limbs(Q, i + 1, s \div 256)

\* 12 * q + r as a 64-bit value, and whether it needs more than 64 bits
Mul12Add(q, r) ==
    LET l == Mul12Limbs(Limbs(q), 0, r)
    IN  [val |-> FromLimbs([i \in 0..7 |-> l[i + 1]]), overflow |-> l[9] # 0]

\* Bytes a quotient is made of; 21 is the top byte of the largest quotient
TbLimbValues == {0, 85, 255}
TbTopLimbValues == {0, 21}
TbQuotients ==
    {FromLimbs([i \in 0..7 |-> IF i = 7 THEN top ELSE IF i = 6 THEN low[2] ELSE low[i]]) :
        low \in [0..5 -> TbLimbValues], top \in TbTopLimbValues}

\* Time bases a block can be compiled under: [q, r, start]
TbSamples ==
    << [q |-> {}, r |-> 0, start |-> {}],
       [q |-> B32, r |-> 11, start |-> {0}],
       [q |-> {0, 33, 40}, r |-> 5, start |-> B32],
       [q |-> FromLimbs([i \in 0..7 |-> IF i = 7 THEN 21 ELSE 85]), r |-> 3,
        start |-> {63, 31, 4}] >>
TbSnapshot(k) == TbSamples[(k % Len(TbSamples)) + 1]

\* The instruction after the time base read
TbNextInsts ==
    [OPCD : {31, 14}, SUBOP10 : {371, 339}, index : {SPR_TL, SPR_TU, 1}, RD : GPRegs]
TbOps ==
    [index : {SPR_TL, SPR_TU}, RD : GPRegs, canMerge : BOOLEAN, next : TbNextInsts]
NoTbOp ==
    [index |-> SPR_TL, RD |-> 0, canMerge |-> FALSE,
     next |-> [OPCD |-> 14, SUBOP10 |-> 339, index |-> 1, RD |-> 0]]

---------------------------------------------------------------------------
(* Actions: one guest instruction or one codec call *)

Do_crXXX ==
    /\ Running
    /\ last.op = "init"
    /\ \E SUBOP10 \in CrOps, CRBA \in OpCRBits, CRBB \in OpCRBits, CRBD \in OpCRBits :
          /\ cr' = crXXX(cr, SUBOP10, CRBA, CRBB, CRBD)
          /\ last' = [op |-> "crXXX", SUBOP10 |-> SUBOP10, CRBA |-> CRBA,
                      CRBB |-> CRBB, CRBD |-> CRBD]
    /\ pre' = Snap
    /\ prev' = NoPrev
    /\ pc' = pc + 4
    /\ UNCHANGED <<crField, wroteGT, gprVars, trapVars, fpVars, xerVars, snap, tbVars, wqVars>>

Do_SetCRFieldBitReg ==
    /\ \E bit \in CRBits, in0 \in BOOLEAN, negate \in BOOLEAN, hint \in BOOLEAN :
          LET in == IF hint THEN (B32 \ {0}) \cup CSET(in0) ELSE CSET(in0)
          IN  /\ cr' = [cr EXCEPT ![crField] = SetCRFieldBitReg(@, bit, in, negate, hint)]
              /\ wroteGT' = (wroteGT \/ bit = CR_GT_BIT)
              /\ last' = [op |-> "WriteFlag", field |-> crField, bit |-> bit, in |-> in,
                          negate |-> negate, hint |-> hint]
    /\ pre' = Snap
    /\ prev' = NoPrev
    /\ UNCHANGED <<crField, gprVars, trapVars, pc, fpVars, xerVars, snap, tbVars, wqVars>>

Do_SetCRFieldBit ==
    /\ \E bit \in CRBits :
          /\ cr' = [cr EXCEPT ![crField] = SetCRFieldBit(@, bit)]
          /\ wroteGT' = (wroteGT \/ bit = CR_GT_BIT)
          /\ last' = [op |-> "SetFlag", field |-> crField, bit |-> bit]
    /\ pre' = Snap
    /\ prev' = NoPrev
    /\ UNCHANGED <<crField, gprVars, trapVars, pc, fpVars, xerVars, snap, tbVars, wqVars>>

Do_ClearCRFieldBit ==
    /\ \E bit \in CRBits :
          /\ cr' = [cr EXCEPT ![crField] = ClearCRFieldBit(@, bit)]
          /\ wroteGT' = (wroteGT \/ bit = CR_GT_BIT)
          /\ last' = [op |-> "ClearFlag", field |-> crField, bit |-> bit]
    /\ pre' = Snap
    /\ prev' = NoPrev
    /\ UNCHANGED <<crField, gprVars, trapVars, pc, fpVars, xerVars, snap, tbVars, wqVars>>

Do_mtcrf ==
    /\ Running
    /\ last.op = "init"
    /\ \E RS \in GPRegs, CRM \in 0..255 :
          /\ cr' = IF CRM # 0 THEN mtcrf(cr, gpr[RS], Bits(CRM, 8)) ELSE cr
          /\ last' = [op |-> "mtcrf", RS |-> RS, CRM |-> CRM]
    /\ pre' = Snap
    /\ prev' = NoPrev
    /\ pc' = pc + 4
    /\ UNCHANGED <<crField, wroteGT, gprVars, trapVars, fpVars, xerVars, snap, tbVars, wqVars>>

Do_mfcr ==
    /\ Running
    /\ last.op \in {"init", "mtcrf", "twx"}
    /\ \E RD \in GPRegs :
          /\ gpr' = [gpr EXCEPT ![RD] = mfcr(cr)]
          /\ last' = [op |-> "mfcr", RD |-> RD]
    /\ pre' = Snap
    /\ prev' = [last |-> last, pre |-> pre]
    /\ pc' = pc + 4
    /\ UNCHANGED <<crVars, ppc_gpr, trapVars, fpVars, xerVars, snap, tbVars, wqVars>>

\* tw (OPCD 31) compares two registers, twi (OPCD 3) a register and SIMM_16
Do_twx ==
    /\ Running
    /\ last.op = "init"
    /\ \E OPCD \in {3, 31}, TO \in 0..31, RA \in GPRegs,
          conditional_continue \in BOOLEAN :
          \E x \in (IF OPCD = 3 THEN SIMM16Values ELSE GPRegs) :
             LET a == gpr[RA]
                 b == IF OPCD = 3 THEN SignExtend16(x) ELSE gpr[x]
                 taken == TwxTaken(Bits(TO, 5), a, b)
                 e == TwxEffect(taken, conditional_continue)
             IN  /\ ppc_gpr' = e.ppc_gpr
                 /\ Exceptions' = e.Exceptions
                 /\ srr1' = e.srr1
                 /\ exit' = e.exit
                 /\ pc' = e.pc
                 /\ last' = [op |-> "twx", OPCD |-> OPCD, TO |-> TO, RA |-> RA,
                             RB |-> IF OPCD = 3 THEN 0 ELSE x,
                             SIMM_16 |-> IF OPCD = 3 THEN x ELSE {},
                             a |-> a, b |-> b, taken |-> taken,
                             conditional_continue |-> conditional_continue]
    /\ pre' = Snap
    /\ prev' = NoPrev
    /\ UNCHANGED <<crVars, gpr, fpVars, xerVars, snap, tbVars, wqVars>>

\* The FPSCR instructions run singly or in pairs
FpGuard == Running /\ prev.last.op = "init"

Do_mcrfs ==
    /\ FpGuard
    /\ \E CRFS \in 0..(NumCRFields - 1), CRFD \in OpFields :
          LET r == mcrfs(fpscr, CRFS)
          IN  /\ cr' = [cr EXCEPT ![CRFD] = s_crTable(McrfsNibble(fpscr, CRFS))]
              /\ fpscr' = FpStored(fpscr, r)
              /\ last' = [op |-> "mcrfs", CRFS |-> CRFS, CRFD |-> CRFD, r |-> r]
    /\ pre' = Snap
    /\ prev' = [last |-> last, pre |-> pre]
    /\ pc' = pc + 4
    /\ UNCHANGED <<crField, wroteGT, gprVars, trapVars, xerVars, snap, tbVars, wqVars>>

Do_mtfsb0x ==
    /\ FpGuard
    /\ \E CRBD \in 0..31 :
          LET r == mtfsb0x(fpscr, CRBD)
          IN  /\ fpscr' = FpStored(fpscr, r)
              /\ last' = [op |-> "mtfsb0x", CRBD |-> CRBD, r |-> r]
    /\ pre' = Snap
    /\ prev' = [last |-> last, pre |-> pre]
    /\ pc' = pc + 4
    /\ UNCHANGED <<crVars, gprVars, trapVars, xerVars, snap, tbVars, wqVars>>

Do_mtfsb1x ==
    /\ FpGuard
    /\ \E CRBD \in 0..31 :
          LET r == mtfsb1x(fpscr, CRBD)
          IN  /\ fpscr' = FpStored(fpscr, r)
              /\ last' = [op |-> "mtfsb1x", CRBD |-> CRBD, r |-> r]
    /\ pre' = Snap
    /\ prev' = [last |-> last, pre |-> pre]
    /\ pc' = pc + 4
    /\ UNCHANGED <<crVars, gprVars, trapVars, xerVars, snap, tbVars, wqVars>>

Do_mtfsfix ==
    /\ FpGuard
    /\ \E CRFD \in 0..(NumCRFields - 1), imm \in ImmValues :
          LET r == mtfsfix(fpscr, CRFD, Bits(imm, 4))
          IN  /\ fpscr' = FpStored(fpscr, r)
              /\ last' = [op |-> "mtfsfix", CRFD |-> CRFD, imm |-> imm, r |-> r]
    /\ pre' = Snap
    /\ prev' = [last |-> last, pre |-> pre]
    /\ pc' = pc + 4
    /\ UNCHANGED <<crVars, gprVars, trapVars, xerVars, snap, tbVars, wqVars>>

Do_mtfsfx ==
    /\ FpGuard
    /\ \E FM \in FMValues, fb \in FBValues :
          LET r == mtfsfx(fpscr, Bits(FM, 8), fb)
          IN  /\ fpscr' = FpStored(fpscr, r)
              /\ last' = [op |-> "mtfsfx", FM |-> FM, fb |-> fb, r |-> r]
    /\ pre' = Snap
    /\ prev' = [last |-> last, pre |-> pre]
    /\ pc' = pc + 4
    /\ UNCHANGED <<crVars, gprVars, trapVars, xerVars, snap, tbVars, wqVars>>

Do_mtspr_XER ==
    /\ Running
    /\ \E RD \in GPRegs :
          LET s == mtspr_XER(gpr[RD])
          IN  /\ xer_stringctrl' = s.xer_stringctrl
              /\ xer_ca' = s.xer_ca
              /\ xer_so_ov' = s.xer_so_ov
              /\ spr_xer' = W(gpr[RD])
              /\ last' = [op |-> "mtspr_XER", RD |-> RD]
    /\ pre' = Snap
    /\ prev' = [last |-> last, pre |-> pre]
    /\ pc' = pc + 4
    /\ UNCHANGED <<crVars, gprVars, trapVars, fpVars, snap, tbVars, wqVars>>

Do_mfspr_XER ==
    /\ Running
    /\ \E RD \in GPRegs :
          /\ gpr' = [gpr EXCEPT ![RD] = mfspr_XER(xer_stringctrl, xer_ca, xer_so_ov)]
          /\ last' = [op |-> "mfspr_XER", RD |-> RD]
    /\ pre' = Snap
    /\ prev' = [last |-> last, pre |-> pre]
    /\ pc' = pc + 4
    /\ UNCHANGED <<crVars, ppc_gpr, trapVars, fpVars, xerVars, snap, tbVars, wqVars>>

Do_mcrxr ==
    /\ Running
    /\ \E CRFD \in OpFields :
          /\ cr' = [cr EXCEPT ![CRFD] = s_crTable(McrxrNibble(xer_ca, xer_so_ov))]
          /\ last' = [op |-> "mcrxr", CRFD |-> CRFD]
    /\ xer_ca' = {}
    /\ xer_so_ov' = {}
    /\ pre' = Snap
    /\ prev' = [last |-> last, pre |-> pre]
    /\ pc' = pc + 4
    /\ UNCHANGED <<crField, wroteGT, gprVars, trapVars, fpVars, xer_stringctrl,
                   spr_xer, snap, tbVars, wqVars>>

\* mfspr from SPR_TL or SPR_TU, the inline GetFakeTimeBase
Do_mfspr_TB ==
    /\ Running
    /\ last.op = "init"
    /\ LET quot == Div12(tbTicks)
           tb == TimeBase(quot, tbStart)
           fused == TbFused(jsOp)
       IN  /\ spr_tl' = tb
           /\ gpr' = mfspr_TB(gpr, jsOp, tb)
           /\ downcountAmount' = IF fused THEN downcountAmount + 1 ELSE downcountAmount
           /\ skipInstructions' = IF fused THEN 1 ELSE skipInstructions
           /\ last' = [op |-> "mfspr_TB", quot |-> quot,
                       downcountBefore |-> downcountAmount]
    /\ pre' = Snap
    /\ prev' = NoPrev
    /\ pc' = pc + 4
    /\ UNCHANGED <<crVars, ppc_gpr, trapVars, fpVars, xerVars, snap, jsOp, tbTicks,
                   tbStart, tbQ, wqVars>>

---------------------------------------------------------------------------
(* WorkQueueThread *)

\* The threads that call into the work queue
Clients == {"c1", "c2"}
Items == 1..MaxItems
NoItem == 0

\* std::queue: front, pop, push
Front(q) == Head(q)
\* A pop that leaves the front item in place
PopFront_Keep(q) == q
PopFront(q) == Tail(q)
PushBack(q, item) == Append(q, item)
SeqSet(q) == {q[i] : i \in 1..Len(q)}

\* Common::Event: Set leaves the event signalled; Wait returns once the event is
\* signalled and resets it
EventSet == TRUE
EventReset == FALSE
\* Common::Flag
FlagSet == TRUE
FlagClear == FALSE

At(t, label) == cpc[t] = label
Goto(t, label) == cpc' = [cpc EXCEPT ![t] = label]

\* ThreadLoop: m_wakeup.Wait()
W_Wait ==
    /\ wpc = "wait"
    /\ m_wakeup = EventSet
    /\ m_wakeup' = EventReset
    /\ wpc' = "lock"
    /\ UNCHANGED <<m_items, m_lock, m_flushed, m_shutdown, m_cancelled, m_flush,
                   joinable, witem, cpc, citem, csnap, nextItem, wqHistory, jitVars>>

\* ThreadLoop: std::unique_lock lg(m_lock)
W_Lock ==
    /\ wpc = "lock"
    /\ m_lock = "free"
    /\ m_lock' = "worker"
    /\ wpc' = "empty"
    /\ UNCHANGED <<m_items, m_wakeup, m_flushed, m_shutdown, m_cancelled, m_flush,
                   joinable, witem, cpc, citem, csnap, nextItem, wqHistory, jitVars>>

\* ThreadLoop: if (m_items.empty()), else move the front item out, pop, unlock
W_Empty ==
    /\ wpc = "empty"
    /\ IF m_items = << >>
       THEN /\ wpc' = "flush"
            /\ UNCHANGED <<m_items, m_lock, witem>>
       ELSE /\ witem' = Front(m_items)
            /\ m_items' = PopFront(m_items)
            /\ m_lock' = "free"
            /\ wpc' = "call"
    /\ UNCHANGED <<m_wakeup, m_flushed, m_shutdown, m_cancelled, m_flush, joinable,
                   cpc, citem, csnap, nextItem, wqHistory, jitVars>>

\* ThreadLoop: if (m_flush.IsSet()) m_flush.Clear(), else break and unlock
W_Flush ==
    /\ wpc = "flush"
    /\ IF m_flush = FlagSet
       THEN /\ m_flush' = FlagClear
            /\ wpc' = "flushed"
            /\ UNCHANGED m_lock
       ELSE /\ m_lock' = "free"
            /\ wpc' = "shutdown"
            /\ UNCHANGED m_flush
    /\ UNCHANGED <<m_items, m_wakeup, m_flushed, m_shutdown, m_cancelled, joinable,
                   witem, cpc, citem, csnap, nextItem, wqHistory, jitVars>>

\* ThreadLoop: m_flushed.Set(), break and unlock
W_Flushed ==
    /\ wpc = "flushed"
    /\ m_flushed' = EventSet
    /\ m_lock' = "free"
    /\ wpc' = "shutdown"
    /\ UNCHANGED <<m_items, m_wakeup, m_shutdown, m_cancelled, m_flush, joinable,
                   witem, cpc, citem, csnap, nextItem, wqHistory, jitVars>>

\* ThreadLoop: m_function(std::move(item)) is entered
W_Call ==
    /\ wpc = "call"
    /\ executed' = Append(executed, witem)
    /\ active' = active + 1
    /\ wpc' = "return"
    /\ UNCHANGED <<wqSync, witem, cpc, citem, csnap, nextItem, enqueued, pushDone,
                   finished, removed, jitVars>>

\* ThreadLoop: m_function returns
W_Return ==
    /\ wpc = "return"
    /\ finished' = finished \cup {witem}
    /\ active' = active - 1
    /\ wpc' = "lock"
    /\ UNCHANGED <<wqSync, witem, cpc, citem, csnap, nextItem, enqueued, pushDone,
                   executed, removed, jitVars>>

\* ThreadLoop: if (m_shutdown.IsSet()) break
W_Shutdown ==
    /\ wpc = "shutdown"
    /\ wpc' = IF m_shutdown = FlagSet THEN "exited" ELSE "wait"
    /\ UNCHANGED <<wqSync, witem, cpc, citem, csnap, nextItem, wqHistory, jitVars>>

Worker ==
    W_Wait \/ W_Lock \/ W_Empty \/ W_Flush \/ W_Flushed \/ W_Call \/ W_Return
    \/ W_Shutdown

\* Push / EmplaceItem: if (!m_cancelled.IsSet())
Push_Begin(t) ==
    /\ At(t, "idle")
    /\ nextItem <= MaxItems
    /\ citem' = [citem EXCEPT ![t] = nextItem]
    /\ nextItem' = nextItem + 1
    /\ Goto(t, IF m_cancelled = FlagSet THEN "push_wake" ELSE "push_lock")
    /\ UNCHANGED <<wqSync, wpc, witem, csnap, wqHistory, jitVars>>

\* Push: std::lock_guard lg(m_lock)
Push_Lock(t) ==
    /\ At(t, "push_lock")
    /\ m_lock = "free"
    /\ m_lock' = t
    /\ Goto(t, "push_item")
    /\ UNCHANGED <<m_items, m_wakeup, m_flushed, m_shutdown, m_cancelled, m_flush,
                   joinable, wpc, witem, citem, csnap, nextItem, wqHistory, jitVars>>

\* Push: m_items.push(item) and the end of the lock_guard's scope
Push_Item(t) ==
    /\ At(t, "push_item")
    /\ m_items' = PushBack(m_items, citem[t])
    /\ enqueued' = Append(enqueued, citem[t])
    /\ m_lock' = "free"
    /\ Goto(t, "push_wake")
    /\ UNCHANGED <<m_wakeup, m_flushed, m_shutdown, m_cancelled, m_flush, joinable,
                   wpc, witem, citem, csnap, nextItem, pushDone, executed, finished,
                   removed, active, jitVars>>

\* Push: m_wakeup.Set() and return
Push_Wake(t) ==
    /\ At(t, "push_wake")
    /\ m_wakeup' = EventSet
    /\ pushDone' = pushDone \cup {citem[t]}
    /\ citem' = [citem EXCEPT ![t] = NoItem]
    /\ Goto(t, "idle")
    /\ UNCHANGED <<m_items, m_lock, m_flushed, m_shutdown, m_cancelled, m_flush,
                   joinable, wpc, witem, csnap, nextItem, enqueued, executed,
                   finished, removed, active, jitVars>>

WQ_Push(t) == Push_Begin(t) \/ Push_Lock(t) \/ Push_Item(t) \/ Push_Wake(t)

\* Flush: if (m_thread.joinable())
Flush_Begin(t) ==
    /\ At(t, "idle")
    /\ joinable
    /\ csnap' = [csnap EXCEPT ![t] = pushDone]
    /\ Goto(t, "flush_set")
    /\ UNCHANGED <<wqSync, wpc, witem, citem, nextItem, wqHistory, jitVars>>

\* Flush: m_flush.Set()
Flush_Set(t) ==
    /\ At(t, "flush_set")
    /\ m_flush' = FlagSet
    /\ Goto(t, "flush_wake")
    /\ UNCHANGED <<m_items, m_lock, m_wakeup, m_flushed, m_shutdown, m_cancelled,
                   joinable, wpc, witem, citem, csnap, nextItem, wqHistory, jitVars>>

\* Flush: m_wakeup.Set()
Flush_Wake(t) ==
    /\ At(t, "flush_wake")
    /\ m_wakeup' = EventSet
    /\ Goto(t, "flush_wait")
    /\ UNCHANGED <<m_items, m_lock, m_flushed, m_shutdown, m_cancelled, m_flush,
                   joinable, wpc, witem, citem, csnap, nextItem, wqHistory, jitVars>>

\* Flush: m_flushed.Wait()
Flush_Wait(t) ==
    /\ At(t, "flush_wait")
    /\ m_flushed = EventSet
    /\ m_flushed' = EventReset
    /\ Goto(t, "flush_done")
    /\ UNCHANGED <<m_items, m_lock, m_wakeup, m_shutdown, m_cancelled, m_flush,
                   joinable, wpc, witem, citem, csnap, nextItem, wqHistory, jitVars>>

\* Flush has returned to its caller
Flush_Return(t) ==
    /\ At(t, "flush_done")
    /\ csnap' = [csnap EXCEPT ![t] = {}]
    /\ Goto(t, "idle")
    /\ UNCHANGED <<wqSync, wpc, witem, citem, nextItem, wqHistory, jitVars>>

WQ_Flush(t) ==
    Flush_Begin(t) \/ Flush_Set(t) \/ Flush_Wake(t) \/ Flush_Wait(t) \/ Flush_Return(t)

\* Clear: std::lock_guard lg(m_lock)
Clear_Lock(t) ==
    /\ At(t, "idle")
    /\ m_lock = "free"
    /\ m_lock' = t
    /\ Goto(t, "clear_items")
    /\ UNCHANGED <<m_items, m_wakeup, m_flushed, m_shutdown, m_cancelled, m_flush,
                   joinable, wpc, witem, citem, csnap, nextItem, wqHistory, jitVars>>

\* Clear: m_items = std::queue<T>() and the end of the lock_guard's scope
Clear_Items(t) ==
    /\ At(t, "clear_items")
    /\ removed' = removed \cup SeqSet(m_items)
    /\ m_items' = << >>
    /\ m_lock' = "free"
    /\ Goto(t, "clear_wake")
    /\ UNCHANGED <<m_wakeup, m_flushed, m_shutdown, m_cancelled, m_flush, joinable,
                   wpc, witem, citem, csnap, nextItem, enqueued, pushDone, executed,
                   finished, active, jitVars>>

\* Clear: m_wakeup.Set() and return
Clear_Wake(t) ==
    /\ At(t, "clear_wake")
    /\ m_wakeup' = EventSet
    /\ Goto(t, "idle")
    /\ UNCHANGED <<m_items, m_lock, m_flushed, m_shutdown, m_cancelled, m_flush,
                   joinable, wpc, witem, citem, csnap, nextItem, wqHistory, jitVars>>

WQ_Clear(t) == Clear_Lock(t) \/ Clear_Items(t) \/ Clear_Wake(t)

\* Shutdown: if (m_thread.joinable()); one thread at a time owns m_thread
Shutdown_Begin(t) ==
    /\ At(t, "idle")
    /\ joinable
    /\ \A u \in Clients : cpc[u] \notin {"sd_set", "sd_wake", "sd_join"}
    /\ csnap' = [csnap EXCEPT ![t] = pushDone]
    /\ Goto(t, "sd_set")
    /\ UNCHANGED <<wqSync, wpc, witem, citem, nextItem, wqHistory, jitVars>>

\* Shutdown: m_shutdown.Set()
Shutdown_Set(t) ==
    /\ At(t, "sd_set")
    /\ m_shutdown' = FlagSet
    /\ Goto(t, "sd_wake")
    /\ UNCHANGED <<m_items, m_lock, m_wakeup, m_flushed, m_cancelled, m_flush,
                   joinable, wpc, witem, citem, csnap, nextItem, wqHistory, jitVars>>

\* Shutdown: m_wakeup.Set()
Shutdown_Wake(t) ==
    /\ At(t, "sd_wake")
    /\ m_wakeup' = EventSet
    /\ Goto(t, "sd_join")
    /\ UNCHANGED <<m_items, m_lock, m_flushed, m_shutdown, m_cancelled, m_flush,
                   joinable, wpc, witem, citem, csnap, nextItem, wqHistory, jitVars>>

\* Shutdown: m_thread.join() returns once ThreadLoop has returned
Shutdown_Join(t) ==
    /\ At(t, "sd_join")
    /\ wpc = "exited"
    /\ joinable' = FALSE
    /\ Goto(t, "sd_done")
    /\ UNCHANGED <<m_items, m_lock, m_wakeup, m_flushed, m_shutdown, m_cancelled,
                   m_flush, wpc, witem, citem, csnap, nextItem, wqHistory, jitVars>>

WQ_Shutdown(t) ==
    Shutdown_Begin(t) \/ Shutdown_Set(t) \/ Shutdown_Wake(t) \/ Shutdown_Join(t)

---------------------------------------------------------------------------
(* Specifications *)

NoSnap == [cr |-> CRSnapshot(0), gpr |-> GPRSnapshot(0)]

\* The work queue after Reset: the worker thread started, nothing queued
WorkQueueReset ==
    /\ m_items = << >>
    /\ m_lock = "free"
    /\ m_wakeup = EventReset
    /\ m_flushed = EventReset
    /\ m_shutdown = FlagClear
    /\ m_cancelled = FlagClear
    /\ m_flush = FlagClear
    /\ joinable = TRUE
    /\ wpc = "wait"
    /\ witem = NoItem
    /\ cpc = [t \in Clients |-> "idle"]
    /\ citem = [t \in Clients |-> NoItem]
    /\ csnap = [t \in Clients |-> {}]
    /\ nextItem = 1
    /\ enqueued = << >>
    /\ pushDone = {}
    /\ executed = << >>
    /\ finished = {}
    /\ removed = {}
    /\ active = 0

InitGuest ==
    /\ snap \in 0..(NumSnapshots - 1)
    /\ cr = CRSnapshot(snap)
    /\ gpr = GPRSnapshot(snap)
    /\ ppc_gpr = GPRSnapshot(snap + 1)
    /\ Exceptions = ExceptionsSnapshot(snap)
    /\ srr1 = Srr1Snapshot(snap)
    /\ pc = 0
    /\ exit = NoExit
    /\ fpscr = FpscrSnapshot(snap)
    /\ xer_ca = XerCaSnapshot(snap)
    /\ xer_so_ov = XerSoOvSnapshot(snap)
    /\ xer_stringctrl = XerStringctrlSnapshot(snap)
    /\ spr_xer = mfspr_XER(xer_stringctrl, xer_ca, xer_so_ov)
    /\ wroteGT = FALSE
    /\ last = NoOp
    /\ pre = NoSnap
    /\ prev = NoPrev
    /\ spr_tl = {}
    /\ skipInstructions = 0
    /\ downcountAmount = snap % 4
    /\ WorkQueueReset

\* No time base read is compiled
NoTimebase ==
    /\ jsOp = NoTbOp
    /\ tbTicks = {}
    /\ tbStart = {}
    /\ tbQ = {}

InitState == InitGuest /\ NoTimebase

\* crXXX executed on a snapshot
InitCrLogic == InitState /\ crField = 0
SpecCrLogic == InitCrLogic /\ [][Do_crXXX]_vars

\* The codec called any number of times on the field bound to a register
NextCodec == Do_SetCRFieldBitReg \/ Do_SetCRFieldBit \/ Do_ClearCRFieldBit
InitCodec == InitState /\ crField \in OpFields
SpecCodec == InitCodec /\ [][NextCodec]_vars

\* mtcrf and mfcr
NextCrTransfer == Do_mtcrf \/ Do_mfcr
InitCrTransfer == InitState /\ crField = 0
SpecCrTransfer == InitCrTransfer /\ [][NextCrTransfer]_vars

\* The trap instruction, and an instruction after it in the block
NextTrap == Do_twx \/ Do_mfcr
InitTrap == InitState /\ crField = 0
SpecTrap == InitTrap /\ [][NextTrap]_vars

\* The FPSCR-writing instructions
NextFpscr == Do_mcrfs \/ Do_mtfsb0x \/ Do_mtfsb1x \/ Do_mtfsfix \/ Do_mtfsfx
InitFpscr == InitState /\ crField = 0
SpecFpscr == InitFpscr /\ [][NextFpscr]_vars

\* Moves to and from XER
NextXer == Do_mtspr_XER \/ Do_mfspr_XER \/ Do_mcrxr
InitXer == InitState /\ crField = 0
SpecXer == InitXer /\ [][NextXer]_vars

\* The time base division on quotients and remainders of every size
InitDiv12 ==
    /\ InitGuest
    /\ snap = 0
    /\ crField = 0
    /\ jsOp = NoTbOp
    /\ tbStart = {}
    /\ tbQ \in TbQuotients
    /\ \E r \in 0..11 :
          LET x == Mul12Add(tbQ, r)
          IN  ~x.overflow /\ tbTicks = x.val
SpecDiv12 == InitDiv12 /\ [][Do_mfspr_TB]_vars

\* A time base read followed by every kind of next instruction
InitTimebase ==
    /\ InitGuest
    /\ crField = 0
    /\ jsOp \in TbOps
    /\ tbQ = TbSnapshot(snap).q
    /\ tbStart = TbSnapshot(snap).start
    /\ tbTicks = Mul12Add(tbQ, TbSnapshot(snap).r).val
SpecTimebase == InitTimebase /\ [][Do_mfspr_TB]_vars

\* Threads pushing items and flushing while the worker runs
InitWorkQueue == InitState /\ snap = 0 /\ crField = 0
ClientsPushFlush == \E t \in Clients : WQ_Push(t) \/ WQ_Flush(t)
NextWorkQueue == Worker \/ ClientsPushFlush
\* A thread that has begun a call goes on with it
ClientsProgress ==
    \E t \in Clients :
        \/ Push_Lock(t) \/ Push_Item(t) \/ Push_Wake(t)
        \/ Flush_Set(t) \/ Flush_Wake(t) \/ Flush_Wait(t) \/ Flush_Return(t)
SpecWorkQueue ==
    InitWorkQueue /\ [][NextWorkQueue]_vars /\ WF_vars(Worker) /\ WF_vars(ClientsProgress)

\* Threads pushing, flushing, clearing and shutting down
InitWQShutdown == InitState /\ snap = 0 /\ crField = 0
ClientsPushShutdown ==
    \E t \in Clients : WQ_Push(t) \/ WQ_Flush(t) \/ WQ_Clear(t) \/ WQ_Shutdown(t)
NextWQShutdown == Worker \/ ClientsPushShutdown
SpecWQShutdown == InitWQShutdown /\ [][NextWQShutdown]_vars

---------------------------------------------------------------------------
(* Reference decoding used by the properties *)

\* The four flags of a packed word: SO = bit 59, LT = bit 62, EQ = the low 32
\* bits are zero, GT = the signed 64-bit value is greater than zero
RefFlag(w, bit) ==
    CASE bit = CR_SO_BIT -> 59 \in w
      [] bit = CR_EQ_BIT -> w \cap (0..31) = {}
      [] bit = CR_GT_BIT -> 63 \notin w /\ w # {}
      [] bit = CR_LT_BIT -> 62 \in w

\* The architectural nibble LT<<3 | GT<<2 | EQ<<1 | SO of a packed word
RefNibble(w) == {b \in 0..3 : RefFlag(w, b)}

\* The nibble of field i in a 32-bit CR image: bits [31-4i, 28-4i]
NibbleOf(v, i) == {b \in 0..3 : (28 - 4 * i + b) \in v}

\* The architectural result of a condition-register logical instruction
ArchCrOp(SUBOP10, A, Bv) ==
    CASE SUBOP10 = 257 -> A /\ Bv
      [] SUBOP10 = 449 -> A \/ Bv
      [] SUBOP10 = 193 -> A # Bv
      [] SUBOP10 = 225 -> ~(A /\ Bv)
      [] SUBOP10 = 33  -> ~(A \/ Bv)
      [] SUBOP10 = 129 -> A /\ ~Bv
      [] SUBOP10 = 417 -> A \/ ~Bv
      [] SUBOP10 = 289 -> A = Bv

IsCodecOp == last.op \in {"WriteFlag", "SetFlag", "ClearFlag"}

---------------------------------------------------------------------------
(* Properties *)

\* C2: after crand, cror, crxor, crnand, crnor, crandc, crorc or creqv the
\* destination flag equals the architectural boolean function of the values the
\* two source flags had before the instruction, also when the two source bits
\* are the same bit and when a source bit is the destination bit; with equal
\* source indices crandc/crxor give 0, creqv/crorc give 1, crand/cror give A and
\* crnor/crnand give NOT A.
C2_CrLogicTruthTable ==
    last.op = "crXXX" =>
        LET A == RefFlag(pre.cr[last.CRBA \div 4], 3 - (last.CRBA % 4))
            Bv == RefFlag(pre.cr[last.CRBB \div 4], 3 - (last.CRBB % 4))
            D == RefFlag(cr[last.CRBD \div 4], 3 - (last.CRBD % 4))
        IN  /\ D = ArchCrOp(last.SUBOP10, A, Bv)
            /\ last.CRBA = last.CRBB =>
                  /\ last.SUBOP10 \in {129, 193} => D = FALSE
                  /\ last.SUBOP10 \in {289, 417} => D = TRUE
                  /\ last.SUBOP10 \in {257, 449} => D = A
                  /\ last.SUBOP10 \in {33, 225} => D = ~A

\* C2 witness: creqv of two flags of different fields, A true and B false, the
\* destination being the EQ flag that is also source A; the result is 0.
C2_Witness ==
    /\ last.op = "crXXX"
    /\ last.SUBOP10 = 289
    /\ last.CRBA \div 4 # last.CRBB \div 4
    /\ last.CRBD = last.CRBA
    /\ 3 - (last.CRBD % 4) = CR_EQ_BIT
    /\ RefFlag(pre.cr[last.CRBA \div 4], 3 - (last.CRBA % 4))
    /\ ~RefFlag(pre.cr[last.CRBB \div 4], 3 - (last.CRBB % 4))
    /\ ~RefFlag(cr[last.CRBD \div 4], CR_EQ_BIT)

C4_SignBitGuard ==
    /\ (~wroteGT /\ ~RefFlag(CRSnapshot(snap)[crField], CR_GT_BIT))
          => ~RefFlag(cr[crField], CR_GT_BIT)
    /\ (IsCodecOp /\ last.bit # CR_GT_BIT /\ ~RefFlag(pre.cr[last.field], CR_GT_BIT))
          => ~RefFlag(cr[last.field], CR_GT_BIT)

\* C4 witness: the field started as the word 0; SO and LT have been set and EQ
\* cleared, the last write being SetFlag(SO), and no write went to GT.
C4_Witness ==
    /\ CRSnapshot(snap)[crField] = {}
    /\ ~wroteGT
    /\ last.op = "SetFlag" /\ last.bit = CR_SO_BIT
    /\ ~RefFlag(pre.cr[crField], CR_SO_BIT)
    /\ RefFlag(cr[crField], CR_SO_BIT)
    /\ RefFlag(cr[crField], CR_LT_BIT)
    /\ ~RefFlag(cr[crField], CR_EQ_BIT)
    /\ ~RefFlag(cr[crField], CR_GT_BIT)

\* C6: mtcrf(v, m) followed by mfcr returns, for each field selected by m, the
\* nibble of v at bits [31-4i, 28-4i], and for each field not selected the nibble
\* the field had before the mtcrf; with m = 0 no field changes.
C6_MtcrfMfcrRoundTrip ==
    /\ (last.op = "mfcr" /\ prev.last.op = "mtcrf") =>
          LET v == prev.pre.gpr[prev.last.RS]
              m == Bits(prev.last.CRM, 8)
              res == gpr[last.RD]
          IN  /\ res \subseteq 0..31
              /\ \A i \in Fields :
                    NibbleOf(res, i) = IF (7 - i) \in m THEN NibbleOf(v, i)
                                       ELSE RefNibble(prev.pre.cr[i])
    /\ (last.op = "mtcrf" /\ last.CRM = 0) => cr = pre.cr

\* C6 witness: mtcrf with the mask 0x81 and the source 0xFEDCBA98 has written the
\* nibble 0xF to field 0 and 8 to field 7, and mfcr has read them back.
C6_Witness ==
    /\ last.op = "mfcr" /\ prev.last.op = "mtcrf"
    /\ prev.last.CRM = 129
    /\ prev.pre.gpr[prev.last.RS] = B32 \ {0, 1, 2, 5, 6, 8, 10, 14, 16, 17, 21, 24}
    /\ NibbleOf(gpr[last.RD], 0) = {0, 1, 2, 3}
    /\ NibbleOf(gpr[last.RD], 7) = {3}
    /\ prev.pre.cr[0] # cr[0]

\* C7: mfcr returns, for each field i, the nibble LT<<3 | GT<<2 | EQ<<1 | SO of
\* the field's packed word at bits [31-4i, 28-4i], field 0 in the top nibble,
\* each flag decided by the codec's test, whatever the other bits of the word.
C7_MfcrNibbles ==
    last.op = "mfcr" =>
        /\ gpr[last.RD] \subseteq 0..31
        /\ \A i \in Fields : NibbleOf(gpr[last.RD], i) = RefNibble(cr[i])

\* C7 witness: a field holds the raw result of a compare of a positive value with
\* zero, 0x7FFFFFFF, and mfcr returns the nibble 0b0100 for it.
C7_Witness ==
    /\ last.op = "mfcr" /\ prev.last.op = "init"
    /\ \E i \in Fields :
          /\ cr[i] = B32 \ {31}
          /\ NibbleOf(gpr[last.RD], i) = {CR_GT_BIT}

\* C8 as stated: after any flag write by WriteFlag, SetFlag or ClearFlag, bit 32
\* of the packed word is set.
C8_Original ==
    IsCodecOp => 32 \in cr[last.field]

\* C8 amended: after a flag write by WriteFlag or SetFlag bit 32 of the packed
\* word is set; ClearFlag leaves bit 32 as it was.
C8_ValidMarker ==
    /\ last.op \in {"WriteFlag", "SetFlag"} => 32 \in cr[last.field]
    /\ last.op = "ClearFlag" => (32 \in cr[last.field] <=> 32 \in pre.cr[last.field])

\* C8 witness: SetFlag on a raw compare result, which had bit 32 clear.
C8_Witness ==
    /\ last.op = "SetFlag"
    /\ 32 \notin pre.cr[last.field]
    /\ 32 \in cr[last.field]


\* a < b as signed 32-bit numbers: the unsigned order with the sign bits flipped
LessS32(a, b) == LessU(EOR(W(a), {31}), EOR(W(b), {31}))

\* The relations the PowerPC TO field selects: 0x10 a <signed b, 0x08 a >signed b,
\* 0x04 a = b, 0x02 a <unsigned b, 0x01 a >unsigned b
ArchTrap(TO, a, b) ==
    \/ 4 \in TO /\ LessS32(a, b)
    \/ 3 \in TO /\ LessS32(b, a)
    \/ 2 \in TO /\ W(a) = W(b)
    \/ 1 \in TO /\ LessU(W(a), W(b))
    \/ 0 \in TO /\ LessU(W(b), W(a))

\* C1: for tw and twi (immediate sign-extended from 16 bits), every mask TO and
\* every operand pair, the trap exit is taken exactly when a relation selected
\* by TO holds, the bits 0x10, 0x08, 0x04, 0x02, 0x01 selecting a <signed b,
\* a >signed b, a = b, a <unsigned b, a >unsigned b; never with TO = 0 and
\* always with TO = 31.
C1_TrapRelations ==
    last.op = "twx" =>
        /\ last.taken = ArchTrap(Bits(last.TO, 5), last.a, last.b)
        /\ last.TO = 0 => ~last.taken
        /\ last.TO = 31 => last.taken

\* C9: a taken trap flushes the registers, ORs the program-exception bit into
\* Exceptions keeping the other pending bits, stores the cause Trap in SRR1 and
\* exits at the trap's own PC, so no later instruction of the block executes; a
\* trap not taken leaves Exceptions and SRR1 unchanged and, unless conditional
\* continuation is enabled, flushes and exits the block at PC + 4.
C9_TrapOutcome ==
    /\ last.op = "twx" =>
          /\ last.taken =>
                /\ ppc_gpr = gpr
                /\ Exceptions = pre.Exceptions \cup {EXCEPTION_PROGRAM_BIT}
                /\ srr1 = {TRAP_CAUSE_BIT}
                /\ exit = [kind |-> "exception", pc |-> pre.pc]
          /\ ~last.taken =>
                /\ Exceptions = pre.Exceptions
                /\ srr1 = pre.srr1
                /\ ~last.conditional_continue =>
                      /\ ppc_gpr = gpr
                      /\ exit = [kind |-> "exit", pc |-> pre.pc + 4]
                /\ last.conditional_continue =>
                      /\ exit = NoExit
                      /\ ppc_gpr = pre.ppc_gpr
                      /\ pc = pre.pc + 4
    /\ exit # NoExit => last.op = "twx"
    /\ (last.op = "mfcr" /\ prev.last.op = "twx") =>
          ~prev.last.taken /\ prev.last.conditional_continue

\* C9 witness: a trap taken while another exception was pending and the stored
\* registers were stale.
C9_Witness ==
    /\ last.op = "twx"
    /\ last.taken
    /\ pre.Exceptions # {}
    /\ EXCEPTION_PROGRAM_BIT \notin pre.Exceptions
    /\ pre.ppc_gpr # pre.gpr
    /\ exit.kind = "exception"

\* C5: after any sequence of mcrfs, mtfsb0x, mtfsb1x, mtfsfix and mtfsfx from an
\* FPSCR with consistent derived bits, the stored FPSCR has VX equal to the OR
\* of the bits of FPSCR_VX_ANY and FEX equal to "an exception bit is set
\* together with its enable bit", computed with the updated VX; recomputing
\* changes no bit other than VX and FEX; and mtfsb0x/mtfsb1x aimed at VX or FEX
\* leave FPSCR unchanged.
C5_FpscrSummary ==
    LET isFp == last.op \in {"mcrfs", "mtfsb0x", "mtfsb1x", "mtfsfix", "mtfsfx"}
    IN  /\ SummaryConsistent(fpscr)
        /\ (isFp /\ last.r.store) => fpscr \ {29, 30} = last.r.raw \ {29, 30}
        /\ (isFp /\ ~last.r.store) => fpscr = pre.fpscr
        /\ (last.op \in {"mtfsb0x", "mtfsb1x"} /\ last.CRBD \in {1, 2})
              => fpscr = pre.fpscr

\* C5 witness: the second of two instructions clears VE with mtfsb0x while
\* VXSNAN stays set, so FEX falls and VX stays.
C5_Witness ==
    /\ last.op = "mtfsb0x"
    /\ last.CRBD = 24
    /\ prev.last.op # "init"
    /\ 30 \in pre.fpscr /\ 29 \in pre.fpscr
    /\ 29 \in fpscr /\ 30 \notin fpscr

\* C10: writing v to XER with mtspr and reading XER back with mfspr gives
\* v AND 0xE000FF7F, the read being stringctrl | carry << 29 | overflow << 30,
\* and the stored string-control halfword holds no bit owned by carry or
\* overflow.
C10_XerRoundTrip ==
    /\ last.op = "mfspr_XER" =>
          gpr[last.RD] = ORR(ORR(pre.xer_stringctrl, LSL32(pre.xer_ca, 29)),
                             LSL32(pre.xer_so_ov, 30))
    /\ (last.op = "mfspr_XER" /\ prev.last.op = "mtspr_XER") =>
          gpr[last.RD] = AND(W(prev.pre.gpr[prev.last.RD]),
                             {31, 30, 29} \cup ((0..15) \ {7}))
    /\ last.op = "mtspr_XER" => xer_stringctrl \cap ({7} \cup (16..31)) = {}

\* C10 witness: 0xFFFFFFFF written and read back as 0xE000FF7F.
C10_Witness ==
    /\ last.op = "mfspr_XER"
    /\ prev.last.op = "mtspr_XER"
    /\ prev.pre.gpr[prev.last.RD] = B32
    /\ gpr[last.RD] = {31, 30, 29} \cup ((0..15) \ {7})

\* C16: the XER carry byte is always 0 or 1: after any sequence of mtspr to XER
\* and mcrxr it equals bit 29 of the last value written, or 0 after mcrxr, and
\* never holds the overflow bit; the overflow byte holds only SO and OV (bits 31
\* and 30 of the value written); mcrxr zeroes both bytes and leaves the
\* string-control halfword unchanged.
C16_CarryByte ==
    /\ xer_ca \subseteq {0}
    /\ xer_so_ov \subseteq {0, 1}
    /\ last.op = "mtspr_XER" =>
          /\ xer_ca = UBFX(W(pre.gpr[last.RD]), 29, 1)
          /\ xer_so_ov = UBFX(W(pre.gpr[last.RD]), 30, 2)
    /\ last.op = "mcrxr" =>
          /\ xer_ca = {}
          /\ xer_so_ov = {}
          /\ xer_stringctrl = pre.xer_stringctrl

\* C12: the division by 12 of the time base fast path is exact: for every
\* unsigned 64-bit x = 12 q + r with 0 <= r < 12, the high 64 bits of
\* x * 0xAAAAAAAAAAAAAAAB shifted right by 3 are q, also for exact multiples of
\* 12 and for the largest x.
C12_Div12Exact ==
    last.op = "mfspr_TB" => last.quot = tbQ

\* C12 witness: the largest x, 2^64 - 1 = 12 * 0x1555555555555555 + 3.
C12_Witness ==
    /\ last.op = "mfspr_TB"
    /\ tbTicks = B64
    /\ last.quot = FromLimbs([i \in 0..7 |-> IF i = 7 THEN 21 ELSE 85])

\* C11: the instruction after a time base read is fused exactly when merging
\* the next instruction is permitted, it is an mftb-form read (opcode 31,
\* subopcode 371) of TL or TU and its destination differs from the first one's.
\* When fused both destinations receive their halves (TL the low, TU the high
\* 32 bits) of one 64-bit counter value, one instruction is skipped and its
\* cycle is counted; when not fused nothing is skipped and only the first
\* destination is written.
C11_TimebaseFusion ==
    last.op = "mfspr_TB" =>
        LET d == jsOp.RD
            n == jsOp.next.RD
            fused == /\ jsOp.canMerge
                     /\ jsOp.next.OPCD = 31 /\ jsOp.next.SUBOP10 = 371
                     /\ jsOp.next.index \in {SPR_TL, SPR_TU}
                     /\ n # d
            half(index) == IF index = SPR_TL THEN spr_tl \cap B32
                           ELSE {b - 32 : b \in spr_tl \ B32}
        IN  /\ gpr[d] = half(jsOp.index)
            /\ fused =>
                  /\ gpr[n] = half(jsOp.next.index)
                  /\ skipInstructions = 1
                  /\ downcountAmount = last.downcountBefore + 1
                  /\ \A g \in GPRegs \ {d, n} : gpr[g] = pre.gpr[g]
            /\ ~fused =>
                  /\ skipInstructions = 0
                  /\ downcountAmount = last.downcountBefore
                  /\ \A g \in GPRegs \ {d} : gpr[g] = pre.gpr[g]

\* C11 witness: TU read into one register fused with an mftb of TL into
\* another, the counter having a nonzero high half.
C11_Witness ==
    /\ last.op = "mfspr_TB"
    /\ jsOp.index = SPR_TU /\ jsOp.next.index = SPR_TL
    /\ skipInstructions = 1
    /\ gpr[jsOp.RD] # {} /\ gpr[jsOp.next.RD] # {}
    /\ gpr[jsOp.RD] # gpr[jsOp.next.RD]
    /\ spr_tl \ B32 # {}

\* q is a prefix of r
IsPrefix(q, r) == Len(q) <= Len(r) /\ \A i \in 1..Len(q) : q[i] = r[i]

C13_Safety ==
    /\ IsPrefix(executed, enqueued)
    /\ \A i, j \in 1..Len(executed) : executed[i] = executed[j] => i = j
    /\ active <= 1

\* C13: while the worker runs and nothing but Push and Flush is called, every
\* item enqueued by any of the producer threads is eventually passed to the
\* function, exactly once, never two at the same time, in the order of
\* enqueueing, and nothing is passed that was not enqueued.
C13_EveryItemExecuted ==
    /\ []C13_Safety
    /\ \A i \in Items : (i \in SeqSet(enqueued)) ~> (i \in finished)

\* C13 witness: two items pushed by two different threads at the same time have
\* both been executed, in the order they were enqueued.
C13_Witness ==
    /\ Len(executed) = MaxItems
    /\ executed = enqueued
    /\ finished = Items
    /\ \A t \in Clients : cpc[t] = "idle"

\* C14: when a call to Flush made while the worker runs returns, every item
\* whose Push had completed before the call began has been passed to the
\* function and its invocation has finished, under any interleaving of threads
\* calling Push and Flush.
C14_FlushWaitsForQueue ==
    \A t \in Clients : cpc[t] = "flush_done" => csnap[t] \subseteq finished

\* C15: when Shutdown returns, every item whose Push completed before Shutdown
\* was called and that Clear did not remove has been passed to the function;
\* no such item is left in the queue after the worker has exited.
C15_ShutdownDrains ==
    \A t \in Clients :
        /\ cpc[t] = "sd_done" => (csnap[t] \ removed) \subseteq SeqSet(executed)
        /\ (cpc[t] \in {"sd_join", "sd_done"} /\ wpc = "exited")
              => csnap[t] \cap SeqSet(m_items) = {}

=============================================================================
